---- MODULE Spec2Model ----
(***************************************************************************)
(* A model of the droidx catalogue API.                                    *)
(*                                                                         *)
(*   - api/index.py: the DataStore (load_data, the read accessors), the    *)
(*     before_request hook and the ten query handlers, with load_data      *)
(*     modelled assignment by assignment so that a query can interleave.   *)
(*   - api/apps.py, api/categories.py, api/search.py: the paginated and    *)
(*     sorted listings over the cache file.                                *)
(*                                                                         *)
(* Strings are sequences of character codes (ASCII), so that Python's      *)
(* comparison, lower() and `in` are computed and not assumed.  A JSON      *)
(* value is a record [t, s, n]: t is its type ("absent" for a key the      *)
(* object does not have), s its characters, n its number.                  *)
(***************************************************************************)
EXTENDS Integers, Sequences, FiniteSets, TLC

VARIABLES
    store,      \* index.py: the module global data_store (exists = FALSE: None)
    loader,     \* a running DataStore.load_data: its position and locals
    clock,      \* the number of loads started: the time load_data reads
    snaps,      \* history: every (apps, metadata) pair a load has produced
    call,       \* a running index.py handler: its position and locals
    resp,       \* the last response of index.py
    cache,      \* api/*.py: the apps list load_apps() reads from the cache file
    out,        \* the last response of api/apps.py, categories.py, search.py
    pager,      \* a client walking the pages of one listing
    sortRun     \* successive applications of the listing sort to one list

vars == <<store, loader, clock, snaps, call, resp, cache, out, pager, sortRun>>

----------------------------------------------------------------------------
(* Bounds of the model. *)

\* the longest apps list a data file holds (index.py model)
MaxStoreApps == 1
\* the longest apps list of the cache file (api/*.py model)
MaxApps == 3
\* the number of load_data calls after construction
MaxLoads == 1
\* the longest cache file a single request is answered from
MaxApiApps == 2
\* the largest offset and limit a request carries
MaxParam == 2

----------------------------------------------------------------------------
(* JSON values. *)

Absent == [t |-> "absent", s |-> <<>>, n |-> 0]
Null == [t |-> "null", s |-> <<>>, n |-> 0]
Str(s) == [t |-> "str", s |-> s, n |-> 0]
Num(n) == [t |-> "int", s |-> <<>>, n |-> n]

\* dict.get(key, default): the default only when the key is absent
Get(app, f, default) == IF app[f].t = "absent" THEN default ELSE app[f]

\* Python truthiness of a JSON value
Truthy(v) ==
    CASE v.t = "str" -> v.s # <<>>
      [] v.t = "int" -> v.n # 0
      [] OTHER -> FALSE

----------------------------------------------------------------------------
(* Strings. *)

\* str.lower() on ASCII
LowerChar(c) == IF c >= 65 /\ c <= 90 THEN c + 32 ELSE c
Lower(s) == [i \in 1..Len(s) |-> LowerChar(s[i])]

\* s < t for str: lexicographic by code point
RECURSIVE StrLess(_, _)
StrLess(s, t) ==
    IF t = <<>> THEN FALSE
    ELSE IF s = <<>> THEN TRUE
    ELSE IF s[1] # t[1] THEN s[1] < t[1]
    ELSE StrLess(Tail(s), Tail(t))

\* q in s for str
Contains(q, s) ==
    \E i \in 0..(Len(s) - Len(q)) : \A j \in 1..Len(q) : s[i + j] = q[j]

\* str.strip() leaves nothing: the string is empty or all blanks
IsBlank(s) == \A i \in 1..Len(s) : s[i] = 32

S_Games == <<71, 97, 109, 101, 115>>
S_Game == <<71, 97, 109, 101>>
S_games == <<103, 97, 109, 101, 115>>
S_Tools == <<84, 111, 111, 108, 115>>
S_Zed == <<90, 101, 100>>
S_Alpha == <<65, 108, 112, 104, 97>>
S_beta == <<98, 101, 116, 97>>

----------------------------------------------------------------------------
(* Sequences. *)

Reverse(s) == [i \in 1..Len(s) |-> s[Len(s) + 1 - i]]

RECURSIVE SeqSum(_)
SeqSum(s) == IF s = <<>> THEN 0 ELSE s[1] + SeqSum(Tail(s))

Min(a, b) == IF a < b THEN a ELSE b
Max(a, b) == IF a > b THEN a ELSE b

\* Python's s[start:stop] (stop = NoStop: s[start:]), negative indexes included
NoStop == 0 - 1000
SliceIndex(i, n) == IF i < 0 THEN Max(i + n, 0) ELSE Min(i, n)
PySlice(s, start, stop) ==
    LET n == Len(s)
        lo == SliceIndex(start, n)
        hi == IF stop = NoStop THEN n ELSE SliceIndex(stop, n)
    IN IF lo >= hi THEN <<>> ELSE SubSeq(s, lo + 1, hi)

\* every sequence without repetition over S of length <= n
RECURSIVE DistinctSeqs(_, _)
DistinctSeqs(S, n) ==
    IF n = 0 THEN {<<>>}
    ELSE LET shorter == DistinctSeqs(S, n - 1)
         IN shorter \cup
            {Append(s, x) : <<s, x>> \in
                {p \in shorter \X S : \A i \in 1..Len(p[1]) : p[1][i] # p[2]}}

----------------------------------------------------------------------------
(* Application records.  Every record has the same fields; a key the JSON  *)
(* object lacks holds Absent.  categories is [t, v]: t = "list" and v the  *)
(* category names, or t = "absent".  packages is the number of package     *)
(* entries, or Absent.                                                     *)

NoCats == [t |-> "absent", v |-> <<>>]
Cats(v) == [t |-> "list", v |-> v]

\* a game named Zed
AppZed ==
    [id |-> Str(<<97>>), name |-> Str(S_Zed), summary |-> Str(S_beta),
     description |-> Absent, version |-> Str(<<50>>), versionCode |-> Num(3),
     categories |-> Cats(<<S_Games>>), last_updated |-> Str(<<50>>),
     license |-> Str(<<77>>), source_code |-> Str(<<115>>), website |-> Absent,
     packages |-> Num(2)]

AppAlpha ==
    [id |-> Str(<<98>>), name |-> Str(S_Alpha), summary |-> Str(<<>>),
     description |-> Str(S_Zed), version |-> Str(<<49>>), versionCode |-> Num(1),
     categories |-> Cats(<<>>), last_updated |-> Absent,
     license |-> Absent, source_code |-> Absent, website |-> Str(<<119>>),
     packages |-> Num(1)]

\* same name, version and versionCode as AppAlpha: a tie under three sort fields
AppAlpha2 ==
    [id |-> Str(<<99>>), name |-> Str(S_Alpha), summary |-> Str(S_Zed),
     description |-> Absent, version |-> Str(<<49>>), versionCode |-> Num(1),
     categories |-> Cats(<<S_Tools>>), last_updated |-> Str(<<49>>),
     license |-> Str(<<77>>), source_code |-> Absent, website |-> Absent,
     packages |-> Absent]

\* a record of the flattened index: no name, version, versionCode, categories
AppBare ==
    [id |-> Str(<<100>>), name |-> Absent, summary |-> Null,
     description |-> Absent, version |-> Absent, versionCode |-> Absent,
     categories |-> NoCats, last_updated |-> Null,
     license |-> Absent, source_code |-> Absent, website |-> Absent,
     packages |-> Absent]

AppUniverse == {AppZed, AppAlpha, AppAlpha2, AppBare}
StoreUniverse == {AppZed, AppAlpha, AppAlpha2}

\* app.get('categories', [])
CategoriesOf(app) == IF app.categories.t = "absent" THEN <<>> ELSE app.categories.v

SeqHas(s, x) == \E i \in 1..Len(s) : s[i] = x

----------------------------------------------------------------------------
(* Python's sorted(): a stable sort by key, raising TypeError when two     *)
(* keys cannot be compared.                                                *)

\* a < b for two keys of one comparable type
KeyLess(a, b) == IF a.t = "str" THEN StrLess(a.s, b.s) ELSE a.n < b.n

\* sorted() raises: with two or more elements every element is compared with
\* another, and '<' is defined between two str or two int only
SortRaises(keys) ==
    /\ Len(keys) >= 2
    /\ \/ \E i \in 1..Len(keys) : keys[i].t \notin {"str", "int"}
       \/ \E i, j \in 1..Len(keys) : keys[i].t # keys[j].t

\* an insertion that puts index i in front of the equal keys: a sort that is
\* not stable
RECURSIVE InsertIdxBefore(_, _, _)
InsertIdxBefore(i, s, keys) ==
    IF s = <<>> THEN <<i>>
    ELSE IF ~KeyLess(keys[s[1]], keys[i]) THEN <<i>> \o s
    ELSE <<s[1]>> \o InsertIdxBefore(i, Tail(s), keys)

\* index i inserted into the sorted index list s, behind every equal key
RECURSIVE InsertIdx(_, _, _)
InsertIdx(i, s, keys) ==
    IF s = <<>> THEN <<i>>
    ELSE IF KeyLess(keys[i], keys[s[1]]) THEN <<i>> \o s
    ELSE <<s[1]>> \o InsertIdx(i, Tail(s), keys)

\* the indexes idxs in ascending order of key, equal keys in the order of idxs
RECURSIVE SortIdx(_, _)
SortIdx(idxs, keys) ==
    IF idxs = <<>> THEN <<>>
    ELSE InsertIdx(idxs[Len(idxs)], SortIdx(SubSeq(idxs, 1, Len(idxs) - 1), keys), keys)

\* a descending sort that is the ascending sort reversed: equal keys come out
\* in the reverse of their original order
SortPermFlip(keys, reverse) ==
    LET asc == SortIdx([i \in 1..Len(keys) |-> i], keys)
    IN IF reverse THEN [i \in 1..Len(asc) |-> asc[Len(asc) + 1 - i]] ELSE asc

Iota(n) == [i \in 1..n |-> i]

\* list.sort(reverse=True) reverses the list, sorts it ascending and reverses
\* the result: descending, equal keys still in their original order
SortPerm(keys, reverse) ==
    IF reverse THEN Reverse(SortIdx(Reverse(Iota(Len(keys))), keys))
    ELSE SortIdx(Iota(Len(keys)), keys)

\* sorted(items, key=..., reverse=...) where keys[i] is the key of items[i]
PySorted(items, keys, reverse) ==
    LET perm == SortPerm(keys, reverse)
    IN [i \in 1..Len(items) |-> items[perm[i]]]

\* key=lambda x: x.get(sort_by, '')
SortKeys(apps, sort_by) == [i \in 1..Len(apps) |-> Get(apps[i], sort_by, Str(<<>>))]

----------------------------------------------------------------------------
(* api/apps.py, api/categories.py, api/search.py: the request parameters.  *)
(* A raw query-string parameter is [t, n]: absent, the empty string, the   *)
(* decimal text of the integer n, or text int() does not accept.           *)

RawAbsent == [t |-> "absent", n |-> 0]
RawEmpty == [t |-> "empty", n |-> 0]
RawJunk == [t |-> "junk", n |-> 0]
RawInt(n) == [t |-> "int", n |-> n]

\* request.args.get('sort', 'name') and request.args.get('order', 'asc'):
\* NoArg stands for a parameter the query string does not carry
NoArg == "<none>"
SortArg(raw) == IF raw = NoArg THEN "name" ELSE raw
OrderArg(raw) == IF raw = NoArg THEN "asc" ELSE raw

SortFields == {"name", "version", "versionCode", "id"}
Orders == {"asc", "desc"}

\* limit = int(args.get('limit', 20)) if args.get('limit') else None
\* [ok, none, n]: ok = FALSE when int() raises ValueError
ParseLimit(raw) ==
    CASE raw.t \in {"absent", "empty"} -> [ok |-> TRUE, none |-> TRUE, n |-> 0]
      [] raw.t = "junk" -> [ok |-> FALSE, none |-> FALSE, n |-> 0]
      [] OTHER -> [ok |-> TRUE, none |-> FALSE, n |-> raw.n]

\* offset = int(args.get('offset', 0))
ParseOffset(raw) ==
    CASE raw.t = "absent" -> [ok |-> TRUE, n |-> 0]
      [] raw.t \in {"empty", "junk"} -> [ok |-> FALSE, n |-> 0]
      [] OTHER -> [ok |-> TRUE, n |-> raw.n]

\* the responses: jsonify({"error": ...}), status and jsonify({"total", "count",
\* "results"}); an exception no handler catches is Flask's 500
ApiError(req, status, error) ==
    [req |-> req, status |-> status, error |-> error,
     total |-> 0 - 1, count |-> 0 - 1, results |-> <<>>]

ApiPage(req, total, page) ==
    [req |-> req, status |-> 200, error |-> "", total |-> total, count |-> Len(page),
     results |-> page]

E_Params == "Invalid limit, offset, or sort parameters"
E_Sort == "Invalid sort field. Use: name, version, versionCode, or id"
E_Order == "Invalid order. Use: asc or desc"
E_Query == "Search query 'q' is required"
E_Category == "Category not found"
E_Internal == "Internal Server Error"

\* a window that is one record too long: consecutive pages overlap
PaginateOverlap(sorted_apps, offset, limit) ==
    IF ~limit.none /\ limit.n # 0
    THEN PySlice(sorted_apps, offset, offset + limit.n + 1)
    ELSE PySlice(sorted_apps, offset, NoStop)

\* if limit: sorted_apps[offset:offset + limit] else: sorted_apps[offset:]
Paginate(sorted_apps, offset, limit) ==
    IF ~limit.none /\ limit.n # 0
    THEN PySlice(sorted_apps, offset, offset + limit.n)
    ELSE PySlice(sorted_apps, offset, NoStop)

\* sorted(apps, key=lambda x: x.get(sort_by, ''), reverse=(order == 'desc'))
SortApps(apps, sort_by, order) == PySorted(apps, SortKeys(apps, sort_by), order = "desc")

\* the common tail of the three listings: sort, count, paginate, respond
SortAndPage(req, apps) ==
    LET sort_by == SortArg(req.sort)
        order == OrderArg(req.order)
    IN IF SortRaises(SortKeys(apps, sort_by)) THEN ApiError(req, 500, E_Internal)
       ELSE LET sorted_apps == SortApps(apps, sort_by, order)
            IN ApiPage(req, Len(sorted_apps),
                       Paginate(sorted_apps, ParseOffset(req.offset).n, ParseLimit(req.limit)))

\* the parameter checks the three listings share: "" when they pass
CheckParams(req) ==
    IF ~ParseLimit(req.limit).ok \/ ~ParseOffset(req.offset).ok THEN E_Params
    ELSE IF SortArg(req.sort) \notin SortFields THEN E_Sort
    ELSE IF OrderArg(req.order) \notin Orders THEN E_Order
    ELSE ""

\* api/apps.py get_apps
get_apps_api(apps, req) ==
    IF CheckParams(req) # "" THEN ApiError(req, 400, CheckParams(req))
    ELSE SortAndPage(req, apps)

\* the union of the records' categories
AllCategories(apps) == UNION {{CategoriesOf(apps[i])[j] : j \in 1..Len(CategoriesOf(apps[i]))} : i \in 1..Len(apps)}

\* a membership test that ignores letter case
InCategoryAnyCase(app, category_name) ==
    \E i \in 1..Len(CategoriesOf(app)) : Lower(CategoriesOf(app)[i]) = Lower(category_name)

InCategory(app, category_name) == SeqHas(CategoriesOf(app), category_name)

\* api/categories.py get_apps_by_category
get_apps_by_category_api(apps, req) ==
    IF CheckParams(req) # "" THEN ApiError(req, 400, CheckParams(req))
    ELSE IF req.name \notin AllCategories(apps) THEN ApiError(req, 404, E_Category)
    ELSE LET InCat(app) == InCategory(app, req.name)
         IN SortAndPage(req, SelectSeq(apps, InCat))

\* query in app['name'].lower() or query in app['summary'].lower():
\* app[...] raises KeyError on a missing key, None.lower() AttributeError
SearchRaisesOn(app, query) ==
    \/ app.name.t # "str"
    \/ ~Contains(query, Lower(app.name.s)) /\ app.summary.t # "str"

SearchMatches(app, query) ==
    \/ Contains(query, Lower(app.name.s))
    \/ Contains(query, Lower(app.summary.s))

\* api/search.py search_apps; req.cats is the parsed categories parameter
\* (the empty list when the parameter is absent or names nothing)
search_apps_api(apps, req) ==
    LET query == Lower(req.q)
    IN IF query = <<>> THEN ApiError(req, 400, E_Query)
       ELSE IF CheckParams(req) # "" THEN ApiError(req, 400, CheckParams(req))
       ELSE IF \E i \in 1..Len(apps) : SearchRaisesOn(apps[i], query)
            THEN ApiError(req, 500, E_Internal)
       ELSE LET Match(app) == SearchMatches(app, query)
                InCats(app) == \E k \in 1..Len(req.cats) : InCategory(app, req.cats[k])
                matched == SelectSeq(apps, Match)
                filtered == IF req.cats # <<>> THEN SelectSeq(matched, InCats) ELSE matched
            IN SortAndPage(req, filtered)

Handle(apps, req) ==
    CASE req.endpoint = "apps" -> get_apps_api(apps, req)
      [] req.endpoint = "category" -> get_apps_by_category_api(apps, req)
      [] OTHER -> search_apps_api(apps, req)

\* jsonify(app): the one record
ApiItem(req, app) == [ApiPage(req, 0 - 1, <<app>>) EXCEPT !.count = 0 - 1]

E_AppId == "App ID is required"
E_NoApp == "App not found"
E_NoApps == "No apps available"
E_Limit == "Invalid limit"

\* api/apps.py get_app; req.name is app_id.  app['id'] raises KeyError on a
\* record without id that the loop reaches
get_app_api(apps, req) ==
    IF IsBlank(req.name) THEN ApiError(req, 400, E_AppId)
    ELSE LET Hit(i) == apps[i].id = Str(req.name)
             hits == {i \in 1..Len(apps) : Hit(i)}
             first == IF hits = {} THEN Len(apps) + 1
                      ELSE CHOOSE i \in hits : \A j \in hits : i <= j
         IN IF \E i \in 1..Len(apps) : i < first /\ apps[i].id.t = "absent"
            THEN ApiError(req, 500, E_Internal)
            ELSE IF hits = {} THEN ApiError(req, 404, E_NoApp)
            ELSE ApiItem(req, apps[first])

\* api/random.py get_random_app; pick is the index random.choice draws
get_random_app_api(apps, req, pick) ==
    IF apps = <<>> THEN ApiError(req, 404, E_NoApps)
    ELSE ApiItem(req, apps[pick])

\* the limit of api/latest.py when the parameter is absent or empty
DefaultLatest == 10

\* limit = int(args.get('limit', 10)) if args.get('limit') else 10
ParseLatestLimit(raw) ==
    CASE raw.t \in {"absent", "empty"} -> [ok |-> TRUE, n |-> DefaultLatest]
      [] raw.t = "junk" -> [ok |-> FALSE, n |-> 0]
      [] OTHER -> [ok |-> TRUE, n |-> raw.n]

\* api/latest.py get_latest_apps: sorted by x.get('versionCode', 0), descending
get_latest_apps_api(apps, req) ==
    LET limit == ParseLatestLimit(req.limit)
        keys == [i \in 1..Len(apps) |-> Get(apps[i], "versionCode", Num(0))]
    IN IF ~limit.ok THEN ApiError(req, 400, E_Limit)
       ELSE IF SortRaises(keys) THEN ApiError(req, 500, E_Internal)
       ELSE LET sorted_apps == PySorted(apps, keys, TRUE)
            IN ApiPage(req, 0 - 1,
                        IF limit.n # 0 THEN PySlice(sorted_apps, 0, limit.n)
                        ELSE sorted_apps)

----------------------------------------------------------------------------
(* api/index.py: the data file, the DataStore and its accessors.           *)
(*                                                                         *)
(* The value of the JSON key 'apps' (and of self._apps) is [t, v]: t =     *)
(* "list" and v the records, or "absent", "null", "int" (a non-zero        *)
(* number), "str" (a non-empty string).                                    *)

AppsList(v) == [t |-> "list", v |-> v]
AppsOther(t) == [t |-> t, v |-> <<>>]

\* what the data file holds when load_data opens it
FileMissing == [state |-> "missing", top |-> "dict", apps |-> AppsOther("absent"), last_updated |-> 0]
FileBadJson == [state |-> "badjson", top |-> "dict", apps |-> AppsOther("absent"), last_updated |-> 0]
FileTopList == [state |-> "json", top |-> "list", apps |-> AppsOther("absent"), last_updated |-> 0]
FileDict(apps, last_updated) ==
    [state |-> "json", top |-> "dict", apps |-> apps, last_updated |-> last_updated]

StoreLists == DistinctSeqs(StoreUniverse, MaxStoreApps)

Files ==
    {FileMissing, FileBadJson, FileTopList}
    \cup {FileDict(AppsOther(t), 1) : t \in {"absent", "null", "int", "str"}}
    \cup {FileDict(AppsList(v), 1) : v \in StoreLists}

NoMeta == [last_updated |-> 0, apps_count |-> 0, loaded_at |-> 0]
NoStore == [exists |-> FALSE, apps |-> AppsList(<<>>), metadata |-> NoMeta, last_loaded |-> 0]

\* len(self._apps); the callers have excluded the types without a length
AppsLen(apps) == IF apps.t = "list" THEN Len(apps.v) ELSE 1

\* where load_data raises on this file: "" when it returns normally
\*   read: FileNotFoundError, JSONDecodeError
\*   apps: data.get on a JSON value that is no object (AttributeError)
\*   meta: len() of None or of a number (TypeError)
LoadRaisesAt(file) ==
    CASE file.state # "json" -> "read"
      [] file.top # "dict" -> "apps"
      [] file.apps.t \in {"null", "int"} -> "meta"
      [] OTHER -> ""

\* self._apps = data.get('apps', [])
LoadedApps(data) == IF data.apps.t = "absent" THEN AppsList(<<>>) ELSE data.apps

\* self._metadata = {'last_updated': ..., 'apps_count': len(self._apps), 'loaded_at': now}
LoadedMetadata(data, apps, now) ==
    [last_updated |-> data.last_updated, apps_count |-> AppsLen(apps), loaded_at |-> now]

\* data_store = DataStore(Config.DATA_FILE), None when the constructor raises
Construct(file, now) ==
    IF LoadRaisesAt(file) # "" THEN NoStore
    ELSE [exists |-> TRUE, apps |-> LoadedApps(file),
          metadata |-> LoadedMetadata(file, LoadedApps(file), now), last_loaded |-> now]

\* iterating self._apps raises TypeError (None, a number); a str yields
\* characters, and app.get on one raises AttributeError
Iterable(apps) == apps.t = "list"

GameCategories == {S_Games, S_Game}

\* a classification that ignores letter case
is_game_any_case(app) ==
    \E i \in 1..Len(CategoriesOf(app)) :
       Lower(CategoriesOf(app)[i]) \in {Lower(S_Games), Lower(S_Game)}

\* is_game
is_game(app) == \E i \in 1..Len(CategoriesOf(app)) : CategoriesOf(app)[i] \in GameCategories

\* a lookup that ignores letter case
find_app_by_id_any_case(apps, app_id) ==
    LET Hit(app) == app.id.t = "str" /\ Lower(app.id.s) = Lower(app_id)
        hits == SelectSeq(apps, Hit)
    IN IF hits = <<>> THEN <<>> ELSE <<hits[1]>>

\* DataStore.find_app_by_id: the first record with that id; <<>> for None
find_app_by_id(apps, app_id) ==
    LET Hit(app) == app.id = Str(app_id)
        hits == SelectSeq(apps, Hit)
    IN IF hits = <<>> THEN <<>> ELSE <<hits[1]>>

\* (app.get(f) or '').lower(): raises on a truthy value that is no str
OrEmpty(v) == IF Truthy(v) THEN v.s ELSE <<>>
FieldRaises(v) == Truthy(v) /\ v.t # "str"

SearchFields == {"name", "summary", "description", "id"}

\* DataStore.search_apps
store_search_raises(apps) ==
    \E i \in 1..Len(apps) : \E f \in SearchFields : FieldRaises(apps[i][f])

store_search_apps(apps, q) ==
    LET query_lower == Lower(q)
        Match(app) == \E f \in SearchFields : Contains(query_lower, Lower(OrEmpty(app[f])))
    IN SelectSeq(apps, Match)

\* DataStore.get_apps_by_category
store_get_apps_by_category(apps, category) ==
    LET InCat(app) == InCategory(app, category)
    IN SelectSeq(apps, InCat)

\* the categories of all records, one entry per occurrence, in order
RECURSIVE CategoryOccurrences(_)
CategoryOccurrences(apps) ==
    IF apps = <<>> THEN <<>>
    ELSE CategoriesOf(apps[1]) \o CategoryOccurrences(Tail(apps))

\* the keys of a dict filled in the order of s: each value once, at its first place
RECURSIVE FirstOccurrences(_)
FirstOccurrences(s) ==
    IF s = <<>> THEN <<>>
    ELSE LET front == FirstOccurrences(SubSeq(s, 1, Len(s) - 1))
             last == s[Len(s)]
         IN IF SeqHas(front, last) THEN front ELSE Append(front, last)

CountIn(s, x) == Cardinality({i \in 1..Len(s) : s[i] = x})

\* a dict of counts, as its items in insertion order
CountItems(s) ==
    LET keys == FirstOccurrences(s)
    IN [i \in 1..Len(keys) |-> [name |-> keys[i], count |-> CountIn(s, keys[i])]]

\* sorted(d.items(), key=lambda x: x[1], reverse=True)
SortByCount(items) ==
    PySorted(items, [i \in 1..Len(items) |-> Num(items[i].count)], TRUE)

\* DataStore.get_all_categories: 'if cat' skips the empty name
store_get_all_categories(apps) ==
    LET NonEmpty(cat) == cat # <<>>
    IN SortByCount(CountItems(SelectSeq(CategoryOccurrences(apps), NonEmpty)))

----------------------------------------------------------------------------
(* api/index.py: the responses and the handlers.                           *)
(*                                                                         *)
(* A request is [kind, s, limit]: s the path or query string argument (the *)
(* id, the category name, q), limit the raw 'limit' parameter.  A response *)
(* keeps the fields of the JSON body the handlers fill: dataT tells what   *)
(* 'data' holds ("none": no such key, "list", "app": the one record under  *)
(* 'app', or the type of a self._apps that is no list).                    *)

NoStats ==
    [total_apps |-> 0, total_games |-> 0, total_non_games |-> 0, total_categories |-> 0,
     total_packages |-> 0, unique_licenses |-> 0, apps_with_source_code |-> 0,
     apps_with_website |-> 0, top_licenses |-> <<>>]

BaseResp(req) ==
    [req |-> req, status |-> 0, code |-> "", dataT |-> "none", data |-> <<>>,
     count |-> 0 - 1, total |-> 0 - 1, extra |-> 0 - 1, cats |-> <<>>,
     stats |-> NoStats, meta |-> NoMeta]

NoReq == [kind |-> "none", s |-> <<>>, limit |-> RawAbsent]
NoResp == BaseResp(NoReq)

\* create_error_response: code = error_code or f'ERROR_{status_code}'
create_error_response(req, status, error_code) ==
    [BaseResp(req) EXCEPT
        !.status = status,
        !.code = IF error_code # "" THEN error_code
                 ELSE IF status = 503 THEN "ERROR_503" ELSE "ERROR_400"]

\* create_success_response(data) for a list: 'data' and 'count'
SuccessList(req, data) ==
    [BaseResp(req) EXCEPT !.status = 200, !.code = "OK", !.dataT = "list",
                          !.data = data, !.count = Len(data)]

\* create_success_response({'app': app})
SuccessApp(req, app) ==
    [BaseResp(req) EXCEPT !.status = 200, !.code = "OK", !.dataT = "app", !.data = <<app>>]

\* create_success_response(data) for a value that is neither list nor dict
SuccessRaw(req, t) ==
    [BaseResp(req) EXCEPT !.status = 200, !.code = "OK", !.dataT = t]

\* @app.errorhandler(Exception)
handle_unexpected_error(req) == create_error_response(req, 500, "UNEXPECTED_ERROR")

\* the handlers' own first lines: if data_store is None
ViewNotReady(req) == create_error_response(req, 503, "")

\* no check before the request: the handlers' own checks answer
before_request_skip(st, req) == NoResp

\* @app.before_request: a response when data_store is None, else NoResp (None)
before_request(st, req) ==
    IF ~st.exists THEN create_error_response(req, 503, "DATA_NOT_AVAILABLE")
    ELSE NoResp

\* str.strip() of blanks
RECURSIVE LStrip(_)
LStrip(s) == IF s # <<>> /\ s[1] = 32 THEN LStrip(Tail(s)) ELSE s
Strip(s) == Reverse(LStrip(Reverse(LStrip(s))))

\* request.args.get('limit', type=int): None unless the text is an integer
LatestLimit(raw) ==
    IF raw.t = "int" THEN [none |-> FALSE, n |-> raw.n] ELSE [none |-> TRUE, n |-> 0]

\* get_apps
view_apps(req, all_apps) ==
    IF ~Iterable(all_apps) THEN handle_unexpected_error(req)
    ELSE LET NotGame(app) == ~is_game(app)
             apps == SelectSeq(all_apps.v, NotGame)
         IN [SuccessList(req, apps) EXCEPT
                !.total = Len(all_apps.v), !.extra = Len(all_apps.v) - Len(apps)]

\* get_games
view_games(req, all_apps) ==
    IF ~Iterable(all_apps) THEN handle_unexpected_error(req)
    ELSE LET games == SelectSeq(all_apps.v, is_game)
         IN [SuccessList(req, games) EXCEPT
                !.total = Len(all_apps.v), !.extra = Len(all_apps.v) - Len(games)]

\* get_all
view_all(req, all_apps) ==
    IF all_apps.t = "list" THEN SuccessList(req, all_apps.v)
    ELSE SuccessRaw(req, all_apps.t)

\* get_app
view_app(req, all_apps) ==
    IF IsBlank(req.s) THEN create_error_response(req, 400, "INVALID_APP_ID")
    ELSE IF ~Iterable(all_apps) THEN handle_unexpected_error(req)
    ELSE LET app == find_app_by_id(all_apps.v, req.s)
         IN IF app = <<>> THEN create_error_response(req, 404, "APP_NOT_FOUND")
            ELSE SuccessApp(req, app[1])

\* search
view_search(req, all_apps) ==
    LET q == Strip(req.s)
    IN IF q = <<>> THEN create_error_response(req, 400, "MISSING_QUERY")
       ELSE IF Len(q) < 2 THEN create_error_response(req, 400, "QUERY_TOO_SHORT")
       ELSE IF ~Iterable(all_apps) \/ store_search_raises(all_apps.v)
            THEN handle_unexpected_error(req)
       ELSE SuccessList(req, store_search_apps(all_apps.v, q))

\* get_categories
view_categories(req, all_apps) ==
    IF ~Iterable(all_apps) THEN handle_unexpected_error(req)
    ELSE LET categories == store_get_all_categories(all_apps.v)
         IN [BaseResp(req) EXCEPT !.status = 200, !.code = "OK", !.dataT = "cats",
                                  !.cats = categories, !.count = Len(categories)]

\* get_latest
view_latest(req, all_apps) ==
    LET limit == LatestLimit(req.limit)
        Dated(app) == Truthy(Get(app, "last_updated", Null))
    IN IF ~limit.none /\ limit.n < 1 THEN create_error_response(req, 400, "INVALID_LIMIT")
       ELSE IF ~Iterable(all_apps) THEN handle_unexpected_error(req)
       ELSE LET apps_with_dates == SelectSeq(all_apps.v, Dated)
                keys == SortKeys(apps_with_dates, "last_updated")
            IN IF SortRaises(keys) THEN handle_unexpected_error(req)
               ELSE LET sorted_apps == PySorted(apps_with_dates, keys, TRUE)
                    IN [SuccessList(req,
                           IF ~limit.none /\ limit.n # 0
                           THEN PySlice(sorted_apps, 0, limit.n) ELSE sorted_apps)
                        EXCEPT !.extra = IF limit.none THEN 0 - 1 ELSE limit.n]

\* a random pick that answers an empty store as a failed lookup is answered
view_random_as_lookup(req, all_apps, pick) ==
    IF all_apps.t # "list" \/ all_apps.v = <<>>
    THEN create_error_response(req, 404, "APP_NOT_FOUND")
    ELSE SuccessApp(req, all_apps.v[pick])

\* get_random; pick is the index random.choice draws
view_random(req, all_apps, pick) ==
    CASE all_apps.t = "null" \/ all_apps = AppsList(<<>>) ->
            create_error_response(req, 404, "NO_APPS")
      [] all_apps.t = "int" -> handle_unexpected_error(req)
      [] all_apps.t = "str" -> SuccessRaw(req, "str")
      [] OTHER -> SuccessApp(req, all_apps.v[pick])

\* health_check
view_health(req, metadata) ==
    [BaseResp(req) EXCEPT !.status = 200, !.code = "OK", !.meta = metadata]

\* the licenses dict of get_stats, as its items in insertion order
LicenseItems(apps) ==
    LET Licensed(app) == Truthy(Get(app, "license", Null))
        licensed == SelectSeq(apps, Licensed)
    IN CountItems([i \in 1..Len(licensed) |-> licensed[i].license.s])

\* sorted(licenses.items(), ...)[:TopLicenses]
TopLicenses == 10

PackagesOf(app) == IF app.packages.t = "int" THEN app.packages.n ELSE 0

\* get_stats, its 'statistics' object
Statistics(apps) ==
    LET HasSource(app) == Truthy(Get(app, "source_code", Null))
        HasWebsite(app) == Truthy(Get(app, "website", Null))
        games == SelectSeq(apps, is_game)
    IN [total_apps |-> Len(apps),
        total_games |-> Len(games),
        total_non_games |-> Len(apps) - Len(games),
        total_categories |-> Cardinality(AllCategories(apps)),
        total_packages |-> SeqSum([i \in 1..Len(apps) |-> PackagesOf(apps[i])]),
        unique_licenses |-> Len(LicenseItems(apps)),
        apps_with_source_code |-> Len(SelectSeq(apps, HasSource)),
        apps_with_website |-> Len(SelectSeq(apps, HasWebsite)),
        top_licenses |-> PySlice(SortByCount(LicenseItems(apps)), 0, TopLicenses)]

\* get_stats from its first line to the statistics; NoResp: it goes on to
\* read the metadata
view_stats_first(req, all_apps) ==
    IF ~Iterable(all_apps) THEN handle_unexpected_error(req) ELSE NoResp

\* get_stats, its return: the statistics of all_apps and data_store.get_metadata()
view_stats_second(req, all_apps, metadata) ==
    [BaseResp(req) EXCEPT !.status = 200, !.code = "OK", !.dataT = "stats",
                          !.stats = Statistics(all_apps.v), !.meta = metadata]

\* get_category_apps up to 'if not apps'; NoResp: it goes on to read the categories
view_category_first(req, all_apps) ==
    IF IsBlank(req.s) THEN create_error_response(req, 400, "INVALID_CATEGORY")
    ELSE IF ~Iterable(all_apps) THEN handle_unexpected_error(req)
    ELSE LET apps == store_get_apps_by_category(all_apps.v, req.s)
         IN IF apps # <<>> THEN SuccessList(req, apps) ELSE NoResp

\* get_category_apps from 'if not apps' on; all_apps is what the second read
\* of self._apps returns
view_category_second(req, all_apps) ==
    IF ~Iterable(all_apps) THEN handle_unexpected_error(req)
    ELSE LET all_categories == store_get_all_categories(all_apps.v)
             category_exists == \E i \in 1..Len(all_categories) : all_categories[i].name = req.s
         IN IF ~category_exists THEN create_error_response(req, 404, "CATEGORY_NOT_FOUND")
            ELSE SuccessList(req, <<>>)

\* the handlers that read the store once
View(req, st, pick) ==
    IF ~st.exists
    THEN IF req.kind = "health" THEN create_error_response(req, 503, "UNHEALTHY")
         ELSE ViewNotReady(req)
    ELSE CASE req.kind = "apps" -> view_apps(req, st.apps)
           [] req.kind = "games" -> view_games(req, st.apps)
           [] req.kind = "all" -> view_all(req, st.apps)
           [] req.kind = "lookup" -> view_app(req, st.apps)
           [] req.kind = "search" -> view_search(req, st.apps)
           [] req.kind = "categories" -> view_categories(req, st.apps)
           [] req.kind = "latest" -> view_latest(req, st.apps)
           [] req.kind = "random" -> view_random(req, st.apps, pick)
           [] OTHER -> view_health(req, st.metadata)

\* Flask: the view runs only when before_request returned None
Dispatch(st, req, view) ==
    IF before_request(st, req) # NoResp THEN before_request(st, req) ELSE view

----------------------------------------------------------------------------
(* The states outside a run. *)

IdleLoader == [pc |-> "idle", data |-> FileMissing, pre |-> NoStore, result |-> "none"]

NoApps == AppsList(<<>>)
IdleCall == [pc |-> "idle", req |-> NoReq, apps |-> NoApps, apps2 |-> NoApps,
             meta |-> NoMeta, reads |-> 0]

NoApiReq ==
    [endpoint |-> "none", limit |-> RawAbsent, offset |-> RawAbsent, sort |-> NoArg,
     order |-> NoArg, name |-> <<>>, q |-> <<>>, cats |-> <<>>]
NoOut == ApiError(NoApiReq, 0, "")

IdlePager == [pc |-> "idle", req |-> NoApiReq, limit |-> 0, offset |-> 0, acc |-> <<>>,
              total |-> 0]
IdleSort == [input |-> <<>>, sort_by |-> "name", order |-> "asc", outs |-> <<>>]

IndexIdle == /\ store = NoStore /\ loader = IdleLoader /\ clock = 0 /\ snaps = {}
             /\ call = IdleCall /\ resp = NoResp
indexVars == <<store, loader, clock, snaps, call, resp>>
apiVars == <<cache, out, pager, sortRun>>

----------------------------------------------------------------------------
(* Spec: api/index.py.  The store is constructed from some data file; then *)
(* load_data runs again (at most MaxLoads times, one call at a time) while *)
(* requests are served.                                                    *)

SnapOf(st) == [apps |-> st.apps, metadata |-> st.metadata]

Init ==
    /\ \E file \in Files : store = Construct(file, 0)
    /\ loader = IdleLoader
    /\ clock = 0
    /\ snaps = IF store.exists THEN {SnapOf(store)} ELSE {}
    /\ call = IdleCall
    /\ resp = NoResp
    /\ cache = <<>> /\ out = NoOut /\ pager = IdlePager /\ sortRun = IdleSort

\* load_data is entered: the file is looked up, opened and parsed
LoadRead(file) ==
    /\ store.exists /\ loader.pc = "idle" /\ clock < MaxLoads
    /\ clock' = clock + 1
    /\ loader' = [pc |-> IF LoadRaisesAt(file) = "read" THEN "idle" ELSE "apps",
                  data |-> file, pre |-> store,
                  result |-> IF LoadRaisesAt(file) = "read" THEN "raised" ELSE "none"]
    /\ UNCHANGED <<store, snaps, call, resp>>
    /\ UNCHANGED apiVars

\* the snapshot a load is installing: the history records it when the load
\* makes its first assignment, unless the load is going to raise
Installing(data, now) ==
    IF LoadRaisesAt(data) # "" THEN {}
    ELSE {[apps |-> LoadedApps(data),
           metadata |-> LoadedMetadata(data, LoadedApps(data), now)]}

\* self._apps = data.get('apps', [])
LoadAssignApps ==
    /\ loader.pc = "apps"
    /\ IF LoadRaisesAt(loader.data) = "apps"
       THEN /\ loader' = [loader EXCEPT !.pc = "idle", !.result = "raised"]
            /\ UNCHANGED <<store, snaps>>
       ELSE /\ store' = [store EXCEPT !.apps = LoadedApps(loader.data)]
            /\ snaps' = snaps \cup Installing(loader.data, clock)
            /\ loader' = [loader EXCEPT !.pc = "meta"]
    /\ UNCHANGED <<clock, call, resp>>
    /\ UNCHANGED apiVars

\* self._metadata = {..., 'apps_count': len(self._apps), ...}
LoadAssignMetadata ==
    /\ loader.pc = "meta"
    /\ IF store.apps.t \in {"null", "int"}
       THEN /\ loader' = [loader EXCEPT !.pc = "idle", !.result = "raised"]
            /\ UNCHANGED store
       ELSE /\ store' = [store EXCEPT
                            !.metadata = LoadedMetadata(loader.data, store.apps, clock)]
            /\ loader' = [loader EXCEPT !.pc = "time"]
    /\ UNCHANGED <<clock, snaps, call, resp>>
    /\ UNCHANGED apiVars

\* self._last_loaded = time.time(), and load_data returns
LoadAssignTime ==
    /\ loader.pc = "time"
    /\ store' = [store EXCEPT !.last_loaded = clock]
    /\ loader' = [loader EXCEPT !.pc = "idle", !.result = "ok"]
    /\ UNCHANGED <<clock, snaps, call, resp>>
    /\ UNCHANGED apiVars

SimpleKinds == {"apps", "games", "all", "lookup", "search", "categories", "latest",
                "random", "health"}
QueryKinds == (SimpleKinds \ {"health"}) \cup {"category", "stats"}

Req(kind, s, limit) == [kind |-> kind, s |-> s, limit |-> limit]

\* the requests the clients send
Requests ==
    {Req(k, <<>>, RawAbsent) : k \in {"apps", "games", "all", "categories", "random",
                                      "health", "stats"}}
    \cup {Req("lookup", s, RawAbsent) : s \in {<<97>>, <<98>>, <<122>>, <<32>>}}
    \cup {Req("search", s, RawAbsent) : s \in {<<>>, <<97>>, <<32, 90, 69, 32>>, <<97, 108>>}}
    \cup {Req("category", s, RawAbsent) : s \in {S_Games, S_Tools, S_games, <<32>>}}
    \cup {Req("latest", <<>>, l) : l \in {RawAbsent, RawJunk, RawInt(0), RawInt(1)}}

\* a request to a handler that reads the store once
Serve(req, pick) ==
    /\ call.pc = "idle" /\ req.kind \in SimpleKinds
    /\ resp' = Dispatch(store, req, View(req, store, pick))
    /\ call' = [IdleCall EXCEPT !.req = req, !.apps = store.apps, !.meta = store.metadata,
                                !.reads = IF store.exists THEN 1 ELSE 0]
    /\ UNCHANGED <<store, loader, clock, snaps>>
    /\ UNCHANGED apiVars

\* a two-read handler up to its first read of the store
FirstHalf(req, first) ==
    LET r == Dispatch(store, req, IF ~store.exists THEN ViewNotReady(req) ELSE first)
    IN /\ resp' = r
       /\ call' = [IdleCall EXCEPT !.req = req, !.apps = store.apps,
                                   !.reads = IF store.exists THEN 1 ELSE 0,
                                   !.pc = IF r = NoResp THEN req.kind ELSE "idle"]
       /\ UNCHANGED <<store, loader, clock, snaps>>
       /\ UNCHANGED apiVars
    /\ UNCHANGED apiVars

\* get_category_apps: apps = data_store.get_apps_by_category(category_name)
CategoryStart(req) ==
    /\ call.pc = "idle" /\ req.kind = "category"
    /\ FirstHalf(req, view_category_first(req, store.apps))

\* get_category_apps: all_categories = data_store.get_all_categories()
CategoryFinish ==
    /\ call.pc = "category"
    /\ resp' = view_category_second(call.req, store.apps)
    /\ call' = [call EXCEPT !.pc = "idle", !.apps2 = store.apps, !.reads = 2]
    /\ UNCHANGED <<store, loader, clock, snaps>>
    /\ UNCHANGED apiVars

\* get_stats: all_apps = data_store.get_all_apps() and the statistics
StatsStart(req) ==
    /\ call.pc = "idle" /\ req.kind = "stats"
    /\ FirstHalf(req, view_stats_first(req, store.apps))

\* get_stats: 'metadata': data_store.get_metadata()
StatsFinish ==
    /\ call.pc = "stats"
    /\ resp' = view_stats_second(call.req, call.apps, store.metadata)
    /\ call' = [call EXCEPT !.pc = "idle", !.meta = store.metadata, !.reads = 2]
    /\ UNCHANGED <<store, loader, clock, snaps>>
    /\ UNCHANGED apiVars

\* the requests served while load_data runs: the handlers that read the store
\* twice, and one that reads it once
ConcurrentRequests == {req \in Requests : req.kind \in {"category", "stats", "health"}}

Picks == 1..Max(1, Len(store.apps.v))

Next ==
    \/ \E file \in Files : LoadRead(file)
    \/ LoadAssignApps
    \/ LoadAssignMetadata
    \/ LoadAssignTime
    \/ \E req \in ConcurrentRequests : \E pick \in Picks : Serve(req, pick)
    \/ \E req \in ConcurrentRequests : CategoryStart(req)
    \/ CategoryFinish
    \/ \E req \in ConcurrentRequests : StatsStart(req)
    \/ StatsFinish

Spec == Init /\ [][Next]_vars

----------------------------------------------------------------------------
(* SpecServe: api/index.py serving every kind of request from the store as *)
(* constructed (or from none, when the constructor raised).                *)

\* the 'last_updated' stamps of the ingestion job
Stamps == {1, 2}

ServeFiles ==
    {FileMissing, FileBadJson, FileTopList}
    \cup {FileDict(AppsOther(t), 1) : t \in {"absent", "null", "int", "str"}}
    \cup {FileDict(AppsList(v), u) : v \in DistinctSeqs(AppUniverse, MaxApps), u \in Stamps}

InitServe ==
    /\ \E file \in ServeFiles : store = Construct(file, 0)
    /\ loader = IdleLoader
    /\ clock = 0
    /\ snaps = IF store.exists THEN {SnapOf(store)} ELSE {}
    /\ call = IdleCall
    /\ resp = NoResp
    /\ cache = <<>> /\ out = NoOut /\ pager = IdlePager /\ sortRun = IdleSort

NextServe ==
    \/ \E req \in Requests : \E pick \in Picks : Serve(req, pick)
    \/ \E req \in Requests : CategoryStart(req)
    \/ CategoryFinish
    \/ \E req \in Requests : StatsStart(req)
    \/ StatsFinish

SpecServe == InitServe /\ [][NextServe]_vars

----------------------------------------------------------------------------
(* SpecApi: api/apps.py, api/categories.py and api/search.py answering a   *)
(* request over the cache file.  The three handlers keep nothing between   *)
(* requests (each reads the cache file anew), so a behaviour is one cache  *)
(* file and one request.                                                   *)

Caches == DistinctSeqs(AppUniverse, MaxApps)
ApiCaches == DistinctSeqs(AppUniverse, MaxApiApps)

\* the raw 'limit' and 'offset' parameters: the empty text reads as no limit, and
\* as an offset is refused like any other text that is no integer
RawInts == {RawInt(n) : n \in (0 - 1)..MaxParam}
LimitParams == {RawAbsent, RawEmpty, RawJunk} \cup RawInts
OffsetParams == {RawAbsent, RawJunk} \cup RawInts
SortArgs == SortFields \cup {NoArg, "bogus"}
OrderArgs == Orders \cup {NoArg, "bogus"}

ApiReq(endpoint, limit, offset, sort, order, name, q, cats) ==
    [endpoint |-> endpoint, limit |-> limit, offset |-> offset, sort |-> sort,
     order |-> order, name |-> name, q |-> q, cats |-> cats]

\* the path and query arguments of the category listing and of the search
CategoryNames == {S_Tools, S_games}
SearchQueries == {<<>>, <<65, 76>>}
SearchCategories == {<<>>, <<S_Tools>>}

InitApi ==
    /\ cache \in ApiCaches
    /\ out = NoOut /\ pager = IdlePager /\ sortRun = IdleSort
    /\ IndexIdle

\* GET /api/apps
GetApps(limit, offset, sort, order) ==
    /\ out = NoOut
    /\ out' = get_apps_api(cache, ApiReq("apps", limit, offset, sort, order, <<>>, <<>>, <<>>))
    /\ UNCHANGED <<cache, pager, sortRun>>
    /\ UNCHANGED indexVars

\* GET /api/categories/<category_name>
GetAppsByCategory(limit, offset, sort, order, name) ==
    /\ out = NoOut
    /\ out' = get_apps_by_category_api(cache,
                 ApiReq("category", limit, offset, sort, order, name, <<>>, <<>>))
    /\ UNCHANGED <<cache, pager, sortRun>>
    /\ UNCHANGED indexVars

\* GET /api/search
SearchApps(limit, offset, sort, order, q, cats) ==
    /\ out = NoOut
    /\ out' = search_apps_api(cache, ApiReq("search", limit, offset, sort, order, <<>>, q, cats))
    /\ UNCHANGED <<cache, pager, sortRun>>
    /\ UNCHANGED indexVars

NextApi ==
    \/ \E limit \in LimitParams : \E offset \in OffsetParams :
          \E sort \in SortArgs : \E order \in OrderArgs :
             GetApps(limit, offset, sort, order)
    \/ \E limit \in LimitParams : \E offset \in OffsetParams :
          \E sort \in {NoArg, "versionCode", "bogus"} : \E order \in {NoArg, "desc"} :
             \E name \in CategoryNames :
                GetAppsByCategory(limit, offset, sort, order, name)
    \/ \E limit \in LimitParams : \E offset \in OffsetParams :
          \E sort \in {NoArg, "id"} : \E order \in {NoArg, "desc"} :
             \E q \in SearchQueries : \E cats \in SearchCategories :
                SearchApps(limit, offset, sort, order, q, cats)

SpecApi == InitApi /\ [][NextApi]_vars

----------------------------------------------------------------------------
(* SpecPager: a client reads a listing page by page, offsets 0, limit,     *)
(* 2*limit, ..., until the offset reaches the total the responses report.  *)

InitPager ==
    /\ cache \in Caches
    /\ out = NoOut /\ pager = IdlePager /\ sortRun = IdleSort
    /\ IndexIdle

\* the listings a pager walks: /api/apps and /api/categories/<name>
PagerRequests ==
    {ApiReq(e, RawInt(limit), RawInt(0), sort, order, IF e = "apps" THEN <<>> ELSE name,
            <<>>, <<>>) :
        e \in {"apps", "category"}, limit \in 1..MaxParam, sort \in SortFields,
        order \in Orders, name \in {S_Tools}}

PagerStart(req) ==
    /\ pager.pc = "idle"
    /\ pager' = [pc |-> "walk", req |-> req, limit |-> req.limit.n, offset |-> 0,
                 acc |-> <<>>, total |-> 0]
    /\ UNCHANGED <<cache, out, sortRun>>
    /\ UNCHANGED indexVars

\* the next page is requested and appended
PagerFetch ==
    /\ pager.pc = "walk"
    /\ out' = Handle(cache, [pager.req EXCEPT !.offset = RawInt(pager.offset)])
    /\ pager' = IF out'.status # 200 THEN [pager EXCEPT !.pc = "failed"]
                ELSE [pager EXCEPT
                        !.acc = pager.acc \o out'.results,
                        !.offset = pager.offset + pager.limit,
                        !.total = out'.total,
                        !.pc = IF pager.offset + pager.limit >= out'.total
                               THEN "done" ELSE "walk"]
    /\ UNCHANGED <<cache, sortRun>>
    /\ UNCHANGED indexVars

NextPager ==
    \/ \E req \in PagerRequests : PagerStart(req)
    \/ PagerFetch

SpecPager == InitPager /\ [][NextPager]_vars

----------------------------------------------------------------------------
(* SpecSort: the sort of the listings applied to a list, and to its result. *)

InitSort ==
    /\ \E input \in Caches : \E sort_by \in SortFields : \E order \in Orders :
          sortRun = [input |-> input, sort_by |-> sort_by, order |-> order, outs |-> <<>>]
    /\ cache = <<>> /\ out = NoOut /\ pager = IdlePager
    /\ IndexIdle

SortInput == IF sortRun.outs = <<>> THEN sortRun.input ELSE sortRun.outs[Len(sortRun.outs)]

\* sorted_apps = sorted(apps, key=..., reverse=...), when it does not raise
ApplySort ==
    /\ Len(sortRun.outs) < 2
    /\ ~SortRaises(SortKeys(SortInput, sortRun.sort_by))
    /\ sortRun' = [sortRun EXCEPT
                     !.outs = Append(@, SortApps(SortInput, sortRun.sort_by, sortRun.order))]
    /\ UNCHANGED <<cache, out, pager>>
    /\ UNCHANGED indexVars

NextSort == ApplySort

SpecSort == InitSort /\ [][NextSort]_vars

----------------------------------------------------------------------------
(* SpecQuery: one list of records served by both implementations, the      *)
(* DataStore of api/index.py and the cache file of api/*.py, one request   *)
(* per behaviour.                                                          *)

\* a record that lists a category twice, and 'games' in lower case
AppTwice ==
    [id |-> Str(<<101>>), name |-> Str(S_beta), summary |-> Absent,
     description |-> Absent, version |-> Str(<<49>>), versionCode |-> Num(2),
     categories |-> Cats(<<S_games, S_Tools, S_Tools>>), last_updated |-> Str(<<51>>),
     license |-> Absent, source_code |-> Absent, website |-> Absent,
     packages |-> Absent]

\* a record of the category 'Game', updated when AppZed was
AppGame ==
    [id |-> Str(<<102>>), name |-> Str(S_Game), summary |-> Str(<<>>),
     description |-> Null, version |-> Absent, versionCode |-> Absent,
     categories |-> Cats(<<S_Game>>), last_updated |-> Str(<<50>>),
     license |-> Str(<<77>>), source_code |-> Absent, website |-> Absent,
     packages |-> Num(0)]

QueryUniverse == AppUniverse \cup {AppTwice, AppGame}
QueryLists == DistinctSeqs(QueryUniverse, MaxApps)

InitQuery ==
    /\ cache \in QueryLists
    /\ store = Construct(FileDict(AppsList(cache), 1), 0)
    /\ loader = IdleLoader /\ clock = 0 /\ snaps = {SnapOf(store)}
    /\ call = IdleCall /\ resp = NoResp
    /\ out = NoOut /\ pager = IdlePager /\ sortRun = IdleSort

\* no request has been sent yet
Fresh == call = IdleCall /\ resp = NoResp /\ out = NoOut

QueryRequests ==
    Requests \cup {Req("lookup", s, RawAbsent) : s \in {<<101>>, <<65>>}}
             \cup {Req("latest", <<>>, l) : l \in {RawInt(2), RawInt(0 - 1)}}

\* the ids, category names and limits sent to api/*.py
QueryIds == {<<97>>, <<101>>, <<65>>, <<122>>, <<32>>}
QueryNames == {S_Games, S_Tools, S_games, S_Game}
QueryLimits == {RawAbsent, RawEmpty, RawJunk, RawInt(0), RawInt(1), RawInt(2)}

QueryServe(req, pick) == Fresh /\ Serve(req, pick)
QueryCategoryStart(req) == Fresh /\ CategoryStart(req)
QueryStatsStart(req) == Fresh /\ StatsStart(req)

ApiAnswer(answer) ==
    /\ Fresh
    /\ out' = answer
    /\ UNCHANGED <<cache, pager, sortRun>>
    /\ UNCHANGED indexVars

\* GET /api/apps/<app_id>
GetApp(app_id) ==
    ApiAnswer(get_app_api(cache, [NoApiReq EXCEPT !.endpoint = "app", !.name = app_id]))

\* GET /api/random
GetRandomApp(pick) ==
    ApiAnswer(get_random_app_api(cache, [NoApiReq EXCEPT !.endpoint = "random"], pick))

\* GET /api/latest
GetLatestApps(limit) ==
    ApiAnswer(get_latest_apps_api(cache, [NoApiReq EXCEPT !.endpoint = "latest",
                                                          !.limit = limit]))

\* GET /api/categories/<category_name> with no query string
GetCategory(name) ==
    ApiAnswer(get_apps_by_category_api(cache, [NoApiReq EXCEPT !.endpoint = "category",
                                                               !.name = name]))

NextQuery ==
    \/ \E req \in QueryRequests : \E pick \in Picks : QueryServe(req, pick)
    \/ \E req \in QueryRequests : QueryCategoryStart(req)
    \/ CategoryFinish
    \/ \E req \in QueryRequests : QueryStatsStart(req)
    \/ StatsFinish
    \/ \E app_id \in QueryIds : GetApp(app_id)
    \/ \E pick \in Picks : GetRandomApp(pick)
    \/ \E limit \in QueryLimits : GetLatestApps(limit)
    \/ \E name \in QueryNames : GetCategory(name)

SpecQuery == InitQuery /\ [][NextQuery]_vars

----------------------------------------------------------------------------
(* The claims. *)

\* C1 (Spec): everything a finished two-read handler observed (the records it
\* filtered, the records it computed the category set from, the metadata it
\* echoes) belongs to one snapshot that a load produced.
C1_SingleSnapshot ==
    (call.pc = "idle" /\ call.reads = 2 /\ resp.status \in {200, 404})
    => \E snap \in snaps :
          /\ call.apps = snap.apps
          /\ call.req.kind = "category" => call.apps2 = snap.apps
          /\ call.req.kind = "stats" => call.meta = snap.metadata

\* C2 (Spec): when load_data has raised, the store is what it was when the
\* call began: apps, metadata and load time.
C2_RejectedLoadKeepsState ==
    (loader.pc = "idle" /\ loader.result = "raised") => store = loader.pre

\* the file load_data read is a JSON object whose 'apps' is absent or no list
InvalidAppsPayload(file) ==
    file.state = "json" /\ file.top = "dict" /\ file.apps.t # "list"

\* C3 (Spec): a load of a payload whose 'apps' is absent or not a list raises,
\* and self._apps is still the list it was before the load.
C3_InvalidAppsRejected ==
    (loader.pc = "idle" /\ loader.result # "none" /\ InvalidAppsPayload(loader.data))
    => (loader.result = "raised" /\ store.apps = loader.pre.apps)

\* the code of the service-unavailable response of before_request
NotReadyCode == "DATA_NOT_AVAILABLE"

\* the handlers that answer a store of zero records with an empty success
EmptyListKinds == {"apps", "games", "all", "categories", "stats"}

\* C4 (SpecServe): with data_store None every kind of query is answered 503 with
\* the code DATA_NOT_AVAILABLE and no data; with a store, never so, and a store
\* of zero records is answered 200 with zero records by the listings.
C4_NotReadyUniform ==
    resp.req.kind \in QueryKinds =>
        /\ ~store.exists =>
              resp.status = 503 /\ resp.code = NotReadyCode /\ resp.dataT = "none"
        /\ store.exists => resp.status # 503 /\ resp.code # NotReadyCode
        /\ (store.exists /\ store.apps = NoApps /\ resp.req.kind \in EmptyListKinds) =>
              /\ resp.status = 200
              /\ resp.data = <<>> /\ resp.cats = <<>>
              /\ resp.req.kind # "stats" => resp.count = 0
              /\ resp.req.kind = "stats" => resp.stats.total_apps = 0

C4_Witness ==
    ~store.exists /\ resp.req.kind = "stats" /\ resp.status = 503
    /\ resp.code = NotReadyCode

\* the listing the pager walks, before the sort
PagerSource ==
    IF pager.req.endpoint = "apps" THEN cache
    ELSE store_get_apps_by_category(cache, pager.req.name)

\* C5 (SpecPager): the pages at offsets 0, limit, 2*limit, ... concatenated are
\* the front of the sorted listing, and all of it, each record once, when the
\* offset has reached the total.
C5_PagesReconstruct ==
    pager.pc \in {"walk", "done"} =>
        LET full == SortApps(PagerSource, pager.req.sort, pager.req.order)
        IN /\ pager.acc = SubSeq(full, 1, Min(pager.offset, Len(full)))
           /\ pager.pc = "done" =>
                 /\ pager.acc = full
                 /\ \A i \in 1..Len(PagerSource) : CountIn(pager.acc, PagerSource[i]) = 1
                 /\ Len(pager.acc) = Len(PagerSource)

C5_Witness ==
    pager.pc = "done" /\ pager.limit = 2 /\ Len(pager.acc) = 3 /\ pager.req.order = "desc"

\* C6 (SpecServe): in the apps and games views 'total' is the number of records
\* that pass the view's filter and 'count' the number of records returned.
C6_TotalIsFilteredCount ==
    (resp.status = 200 /\ resp.req.kind \in {"apps", "games"}) =>
        LET Passes(app) == IF resp.req.kind = "games" THEN is_game(app) ELSE ~is_game(app)
        IN /\ resp.total = Len(SelectSeq(store.apps.v, Passes))
           /\ resp.count = Len(resp.data)

\* the records a listing of api/*.py sorts: the cache after the filter
ListingSource(apps, req) ==
    CASE req.endpoint = "apps" -> apps
      [] req.endpoint = "category" -> store_get_apps_by_category(apps, req.name)
      [] OTHER ->
           LET Match(app) == SearchMatches(app, Lower(req.q))
               InCats(app) == \E k \in 1..Len(req.cats) : InCategory(app, req.cats[k])
               matched == SelectSeq(apps, Match)
           IN IF req.cats # <<>> THEN SelectSeq(matched, InCats) ELSE matched

\* positions lo+1 .. hi of s, clipped to s
Window(s, lo, hi) == SubSeq(s, Min(lo, Len(s)) + 1, Min(hi, Len(s)))

\* C7 (SpecApi): for an offset >= 0 the page is the window [offset, offset+limit)
\* of the sorted listing when a limit >= 0 is given, limit = 0 included, and
\* runs from the offset to the end only when no limit is given.
C7_PageIsWindow ==
    (out.status = 200 /\ ParseOffset(out.req.offset).n >= 0
        /\ (ParseLimit(out.req.limit).none \/ ParseLimit(out.req.limit).n >= 0)) =>
        LET full == SortApps(ListingSource(cache, out.req), SortArg(out.req.sort),
                             OrderArg(out.req.order))
            offset == ParseOffset(out.req.offset).n
            limit == ParseLimit(out.req.limit)
        IN /\ ~limit.none =>
                 /\ out.results = Window(full, offset, offset + limit.n)
                 /\ Len(out.results) = Min(limit.n, Max(0, Len(full) - offset))
           /\ limit.none => out.results = Window(full, offset, Len(full))

\* the request carries a sort field, an order or a pagination parameter that is
\* not valid
MalformedRequest(req) ==
    \/ SortArg(req.sort) \notin SortFields
    \/ OrderArg(req.order) \notin Orders
    \/ req.limit.t = "junk" \/ req.offset.t \in {"junk", "empty"}
    \/ req.limit.t = "int" /\ req.limit.n < 0
    \/ req.offset.t = "int" /\ req.offset.n < 0

\* C8 (SpecApi): a listing request that is malformed is answered 400 with no
\* records.
C8_MalformedRejected ==
    (out.req.endpoint # "none" /\ MalformedRequest(out.req)) =>
        (out.status = 400 /\ out.results = <<>>)

\* the place of app in the list s
IndexIn(s, app) == CHOOSE i \in 1..Len(s) : s[i] = app

\* C9 (SpecSort): two records with equal sort keys are in the sorted list in
\* the order they have in the input, ascending and descending.
C9_SortStable ==
    Len(sortRun.outs) >= 1 =>
        LET sorted == sortRun.outs[1]
            Key(app) == Get(app, sortRun.sort_by, Str(<<>>))
        IN /\ Len(sorted) = Len(sortRun.input)
           /\ \A i, j \in 1..Len(sorted) :
                 (i < j /\ Key(sorted[i]) = Key(sorted[j])) =>
                    IndexIn(sortRun.input, sorted[i]) < IndexIn(sortRun.input, sorted[j])

\* the input holds a tie: AppAlpha2 before AppAlpha, equal under name
C9_Witness ==
    /\ Len(sortRun.outs) >= 1 /\ sortRun.order = "desc" /\ sortRun.sort_by = "name"
    /\ sortRun.input = <<AppAlpha2, AppZed, AppAlpha>>
    /\ sortRun.outs[1] = <<AppZed, AppAlpha2, AppAlpha>>

\* C10 (SpecSort): sorting the sorted list again, same field and order, gives
\* the same list.
C10_SortIdempotent ==
    Len(sortRun.outs) = 2 => sortRun.outs[2] = sortRun.outs[1]

C10_Witness ==
    /\ Len(sortRun.outs) = 2 /\ sortRun.order = "asc" /\ sortRun.sort_by = "versionCode"
    /\ sortRun.input = <<AppZed, AppAlpha2, AppAlpha>>
    /\ sortRun.outs[2] = <<AppAlpha2, AppAlpha, AppZed>>

\* the numeric key of a record under versionCode: 0 when there is none
VersionCodeOrZero(app) == IF app.versionCode.t = "int" THEN app.versionCode.n ELSE 0

\* C11 (SpecApi): a listing of /api/apps sorted by versionCode succeeds on every
\* cache, records without versionCode included, and is the cache in numeric
\* order of versionCode, a record without one ordered as 0.
C11_VersionCodeNumeric ==
    (out.req.endpoint = "apps" /\ CheckParams(out.req) = ""
        /\ SortArg(out.req.sort) = "versionCode"
        /\ out.req.limit = RawAbsent /\ out.req.offset = RawAbsent) =>
        /\ out.status = 200
        /\ out.results =
              PySorted(cache, [i \in 1..Len(cache) |-> Num(VersionCodeOrZero(cache[i]))],
                       OrderArg(out.req.order) = "desc")

\* the text of a field for the search: empty when the field is absent or null
FieldText(v) == IF v.t = "str" THEN v.s ELSE <<>>

\* the lowercased query is a substring of the lowercased name, summary,
\* description or id
QueryHits(app, q) ==
    \E f \in SearchFields : Contains(Lower(q), Lower(FieldText(app[f])))

\* C12 (SpecApi): a search of /api/search with a non-empty query and no other
\* parameter succeeds on every cache, and a record is in the result if and only
\* if the lowercased query is a substring of one of its four lowercased fields.
C12_SearchMembership ==
    (out.req.endpoint = "search" /\ Lower(out.req.q) # <<>> /\ CheckParams(out.req) = ""
        /\ out.req.limit = RawAbsent /\ out.req.offset = RawAbsent /\ out.req.cats = <<>>) =>
        /\ out.status = 200
        /\ \A i \in 1..Len(cache) :
              SeqHas(out.results, cache[i]) <=> QueryHits(cache[i], out.req.q)

\* C13 (SpecServe): the records a search of /search returns are in ascending
\* order of name, equal names in the order of the store.
C13_SearchSortedByName ==
    (resp.req.kind = "search" /\ resp.status = 200) =>
        resp.data = SortApps(resp.data, "name", "asc")

\* the records of the list whose categories sequence contains the name exactly
Members(apps, name) ==
    LET Lists(app) == \E i \in 1..Len(CategoriesOf(app)) : CategoriesOf(app)[i] = name
    IN SelectSeq(apps, Lists)

\* C14 (SpecQuery): a category listing for a non-blank name is answered 404 if
\* and only if no record lists the name, and otherwise 200 with exactly the
\* records that list it: /category/<name> of api/index.py in the order of the
\* store, /api/categories/<name> of api/categories.py each of them once.
C14_CategoryListing ==
    /\ (resp.req.kind = "category" /\ resp.status # 0 /\ ~IsBlank(resp.req.s)) =>
          LET members == Members(cache, resp.req.s)
          IN IF members = <<>> THEN resp.status = 404 /\ resp.data = <<>>
             ELSE resp.status = 200 /\ resp.data = members
    /\ (out.req.endpoint = "category" /\ ~IsBlank(out.req.name)) =>
          LET members == Members(cache, out.req.name)
          IN IF members = <<>> THEN out.status = 404 /\ out.results = <<>>
             ELSE /\ out.status = 200
                  /\ Len(out.results) = Len(members)
                  /\ \A i \in 1..Len(members) : SeqHas(out.results, members[i])

\* 'games' is asked of a store that lists 'Games' only: not found
C14_Witness ==
    /\ resp.req.kind = "category" /\ resp.req.s = S_games /\ resp.status = 404
    /\ cache = <<AppZed, AppAlpha2>>

\* the categories sequence contains the string 'Games' or the string 'Game'
ListsGame(app) ==
    \E i \in 1..Len(CategoriesOf(app)) :
       CategoriesOf(app)[i] = S_Games \/ CategoriesOf(app)[i] = S_Game

\* C15 (SpecQuery): the games view is the records that list 'Games' or 'Game',
\* the apps view the other records, and the two views of one store have each
\* record of the store in exactly one of them.
C15_GamesPartition ==
    (resp.req.kind \in {"apps", "games"} /\ resp.status # 0) =>
        LET NotGame(app) == ~ListsGame(app)
            apps_view == view_apps(resp.req, store.apps).data
            games_view == view_games(resp.req, store.apps).data
        IN /\ resp.status = 200
           /\ resp.req.kind = "games" => resp.data = SelectSeq(cache, ListsGame)
           /\ resp.req.kind = "apps" => resp.data = SelectSeq(cache, NotGame)
           /\ resp.data = IF resp.req.kind = "games" THEN games_view ELSE apps_view
           /\ Len(apps_view) + Len(games_view) = Len(cache)
           /\ \A i \in 1..Len(cache) :
                 SeqHas(apps_view, cache[i]) # SeqHas(games_view, cache[i])

\* 'games' in lower case is no game; 'Game' and 'Games' are
C15_Witness ==
    /\ resp.req.kind = "games" /\ cache = <<AppTwice, AppGame, AppZed>>
    /\ resp.data = <<AppGame, AppZed>>

\* C16 (SpecQuery): the entries of /categories are in descending order of count,
\* and entries of equal count in ascending order of name.
C16_CategoriesOrdered ==
    (resp.req.kind = "categories" /\ resp.status = 200) =>
        \A i, j \in 1..Len(resp.cats) :
           i < j => \/ resp.cats[i].count > resp.cats[j].count
                    \/ /\ resp.cats[i].count = resp.cats[j].count
                       /\ StrLess(resp.cats[i].name, resp.cats[j].name)

\* the record has a non-empty last_updated
HasDate(app) == app.last_updated.t = "str" /\ app.last_updated.s # <<>>

\* page is what Latest returns over apps: records with a last_updated only, in
\* descending order of last_updated, the first n of them all when a limit n is
\* given (given = FALSE: all of them)
IsLatest(page, apps, given, n) ==
    LET dated == SelectSeq(apps, HasDate)
    IN /\ \A i \in 1..Len(page) : HasDate(page[i]) /\ SeqHas(apps, page[i])
       /\ \A i, j \in 1..Len(page) :
             i < j => /\ page[i] # page[j]
                      /\ ~StrLess(page[i].last_updated.s, page[j].last_updated.s)
       /\ \A i \in 1..Len(dated) :
             SeqHas(page, dated[i])
             \/ /\ given /\ Len(page) = n
                /\ \A j \in 1..Len(page) :
                      ~StrLess(page[j].last_updated.s, dated[i].last_updated.s)
       /\ Len(page) = IF given THEN Min(n, Len(dated)) ELSE Len(dated)

\* C17, /latest of api/index.py alone
LatestOfIndex ==
    (resp.req.kind = "latest" /\ resp.status = 200) =>
        IsLatest(resp.data, cache, resp.req.limit.t = "int", resp.req.limit.n)

\* C17 (SpecQuery): /latest of api/index.py and /api/latest of api/latest.py
\* return the records with a non-empty last_updated, latest first, the first
\* 'limit' of them when a limit is given and all of them when none is.
C17_LatestByDate ==
    /\ LatestOfIndex
    /\ (out.req.endpoint = "latest" /\ out.status = 200
           /\ (out.req.limit = RawAbsent \/ out.req.limit.n >= 1)) =>
          IsLatest(out.results, cache, out.req.limit.t = "int", out.req.limit.n)

\* C18 (SpecQuery): a random pick over zero records is answered with an error
\* (never 500) whose code is not the code of any failed lookup by id, /random of
\* api/index.py by its 'code' and /api/random of api/random.py by its 'error';
\* over one record or more it is answered with a record of the list.
C18_RandomPick ==
    /\ (resp.req.kind = "random" /\ resp.status # 0) =>
          IF cache = <<>>
          THEN /\ resp.status = 404 /\ resp.dataT = "none"
               /\ \A id \in QueryIds :
                     view_app(Req("lookup", id, RawAbsent), store.apps).code # resp.code
          ELSE /\ resp.status = 200 /\ resp.dataT = "app"
               /\ SeqHas(cache, resp.data[1])
    /\ out.req.endpoint = "random" =>
          IF cache = <<>>
          THEN /\ out.status = 404 /\ out.results = <<>>
               /\ \A id \in QueryIds :
                     get_app_api(cache, [NoApiReq EXCEPT !.name = id]).error # out.error
          ELSE /\ out.status = 200 /\ Len(out.results) = 1
               /\ SeqHas(cache, out.results[1])

\* the store is empty and /random has answered
C18_Witness ==
    cache = <<>> /\ resp.req.kind = "random" /\ resp.status = 404 /\ resp.code = "NO_APPS"

\* the answer to a lookup of id over apps: 400 and no record for a blank id,
\* 200 and the record of that very id when there is one, else 404 and no record
IsLookup(status, found, apps, id) ==
    IF IsBlank(id) THEN status = 400 /\ found = <<>>
    ELSE IF \E i \in 1..Len(apps) : apps[i].id = Str(id)
         THEN /\ status = 200 /\ Len(found) = 1
              /\ found[1].id = Str(id) /\ SeqHas(apps, found[1])
    ELSE status = 404 /\ found = <<>>

\* C19 (SpecQuery): /app/<app_id> of api/index.py and /api/apps/<app_id> of
\* api/apps.py answer a blank id with 400, an id some record has with that
\* record, and any other id with 404.
C19_LookupById ==
    /\ (resp.req.kind = "lookup" /\ resp.status # 0) =>
          IsLookup(resp.status, resp.data, cache, resp.req.s)
    /\ out.req.endpoint = "app" =>
          IsLookup(out.status, out.results, cache, out.req.name)

\* 'A' is asked of a store that has the id 'a': not found
C19_Witness ==
    /\ resp.req.kind = "lookup" /\ resp.req.s = <<65>> /\ resp.status = 404
    /\ cache = <<AppAlpha, AppZed>>

\* C20 (SpecQuery): in /categories the count of an entry is the number of
\* records that list its category, and every category some record lists has
\* exactly one entry.
C20_CategoryCounts ==
    (resp.req.kind = "categories" /\ resp.status = 200) =>
        /\ \A k \in 1..Len(resp.cats) :
              resp.cats[k].count = Len(Members(cache, resp.cats[k].name))
        /\ \A i \in 1..Len(cache) : \A j \in 1..Len(CategoriesOf(cache[i])) :
              Cardinality({k \in 1..Len(resp.cats) :
                              resp.cats[k].name = CategoriesOf(cache[i])[j]}) = 1

\* C21 (Spec): in every state, the states between the assignments of a running
\* load_data included, the metadata of a store that holds a list of records
\* (and held one when the last load began) counts the records of that list.
C21_MetadataDescribesApps ==
    (store.exists /\ store.apps.t = "list" /\ loader.pre.apps.t = "list") =>
        store.metadata.apps_count = Len(store.apps.v)

====
